---- MODULE Spec2Model ----
(***************************************************************************)
(* Model of gtx (src/main.rs): the inverted index (Index), the column      *)
(* formatter (ColumnFormatter), the header reader (read_first_5_lines)     *)
(* and the renderer in main.                                               *)
(*                                                                         *)
(* Text is modelled as a sequence of characters; a character is a string   *)
(* of length one, except the two letters "e_acute" / "E_ACUTE", which      *)
(* stand for U+00E9 / U+00C9: one char, two bytes of UTF-8.                *)
(***************************************************************************)
EXTENDS Integers, Sequences, FiniteSets, TLC

\* ------------------------------------------------------------------ bounds
MaxAdds == 3
MaxInput == 2

\* -------------------------------------------------------------- characters
UpperSeq == <<"A","B","C","D","E","F","G","H","I","J","K","L","M",
              "N","O","P","Q","R","S","T","U","V","W","X","Y","Z","E_ACUTE">>
LowerSeq == <<"a","b","c","d","e","f","g","h","i","j","k","l","m",
              "n","o","p","q","r","s","t","u","v","w","x","y","z","e_acute">>

\* char::is_whitespace, on the characters of the model
IsWhite(c) == c \in {" ", "\t", "\n"}

\* char::to_lowercase
LowerChar(c) ==
    IF \E i \in 1..Len(UpperSeq) : UpperSeq[i] = c
    THEN LowerSeq[CHOOSE i \in 1..Len(UpperSeq) : UpperSeq[i] = c]
    ELSE c

\* str::to_lowercase
to_lowercase(s) == [i \in 1..Len(s) |-> LowerChar(s[i])]

\* str::trim_start / str::trim_end / str::trim
RECURSIVE trim_start(_)
trim_start(s) ==
    IF s # <<>> /\ IsWhite(Head(s)) THEN trim_start(Tail(s)) ELSE s

RECURSIVE trim_end(_)
trim_end(s) ==
    IF s # <<>> /\ IsWhite(s[Len(s)]) THEN trim_end(SubSeq(s, 1, Len(s) - 1)) ELSE s

trim(s) == trim_end(trim_start(s))

\* i.trim().to_lowercase()
normalize(i) == to_lowercase(trim(i))

\* ------------------------------------------------------------------- Index
\* Option<T>
None == [some |-> FALSE]
Some(v) == [some |-> TRUE, val |-> v]

\* Index::new
IndexNew == [inputs |-> {}, map |-> <<>>]

\* HashMap::entry(k).or_default().push(v)
MapPush(map, k, v) ==
    [x \in DOMAIN map \cup {k} |->
        IF x = k
        THEN (IF k \in DOMAIN map THEN Append(map[k], v) ELSE <<v>>)
        ELSE map[x]]

\* a plausible slip: the key is recorded before the emptiness test
add_one_keyfirst(ix, file_name, file_title, extra_info, i) ==
    LET normalized_i == normalize(i) IN
    IF normalized_i # <<>>
    THEN [inputs |-> ix.inputs \cup {normalized_i},
          map |-> MapPush(ix.map, normalized_i, <<file_name, file_title, extra_info>>)]
    ELSE [ix EXCEPT !.inputs = ix.inputs \cup {normalized_i}]

\* a plausible slip: a posting already listed under the key is not listed again
add_one_dedup(ix, file_name, file_title, extra_info, i) ==
    LET normalized_i == normalize(i)
        ref == <<file_name, file_title, extra_info>> IN
    IF normalized_i # <<>>
    THEN IF normalized_i \in DOMAIN ix.map
            /\ \E n \in 1..Len(ix.map[normalized_i]) : ix.map[normalized_i][n] = ref
         THEN ix
         ELSE [inputs |-> ix.inputs \cup {normalized_i},
               map |-> MapPush(ix.map, normalized_i, ref)]
    ELSE ix

\* the body of the loop of Index::add_node
add_one(ix, file_name, file_title, extra_info, i) ==
    LET normalized_i == normalize(i) IN
    IF normalized_i # <<>>
    THEN [inputs |-> ix.inputs \cup {normalized_i},
          map |-> MapPush(ix.map, normalized_i, <<file_name, file_title, extra_info>>)]
    ELSE ix

\* Index::add_node
RECURSIVE add_node(_, _, _, _, _)
add_node(ix, file_name, file_title, extra_info, input) ==
    IF input = <<>> THEN ix
    ELSE add_node(add_one(ix, file_name, file_title, extra_info, Head(input)),
                  file_name, file_title, extra_info, Tail(input))

\* Index::get_files_by_i
get_files_by_i(ix, i) ==
    LET normalized_i == normalize(i) IN
    IF normalized_i \in DOMAIN ix.map THEN Some(ix.map[normalized_i]) ELSE None

\* Index::get_i_count
get_i_count(ix, i) ==
    LET normalized_i == normalize(i) IN
    IF normalized_i \in DOMAIN ix.map THEN Len(ix.map[normalized_i]) ELSE 0

\* Index::get_inputs
get_inputs(ix) == ix.inputs

\* --------------------------------------------------------- ColumnFormatter
\* str::len: the length in bytes of the UTF-8 encoding
ByteLen1(c) == IF c \in {"e_acute", "E_ACUTE"} THEN 2 ELSE 1

RECURSIVE ByteLen(_)
ByteLen(s) == IF s = <<>> THEN 0 ELSE ByteLen1(Head(s)) + ByteLen(Tail(s))

\* str::chars().count(), what the width of format! counts
CharCount(s) == Len(s)

\* " ".repeat(n)
Spaces(n) == [i \in 1..n |-> " "]

\* format!("{:<width$}", word)
PadLeft(word, width) ==
    IF CharCount(word) >= width THEN word ELSE word \o Spaces(width - CharCount(word))

\* str::split_whitespace().collect()
RECURSIVE TakeWord(_)
TakeWord(s) ==
    IF s = <<>> \/ IsWhite(Head(s)) THEN <<>> ELSE <<Head(s)>> \o TakeWord(Tail(s))

RECURSIVE split_whitespace(_)
split_whitespace(s) ==
    IF s = <<>> THEN <<>>
    ELSE IF IsWhite(Head(s)) THEN split_whitespace(Tail(s))
    ELSE LET w == TakeWord(s) IN
         <<w>> \o split_whitespace(SubSeq(s, Len(w) + 1, Len(s)))

MaxOf(S) == IF S = {} THEN 0 ELSE CHOOSE m \in S : \A x \in S : x <= m

\* ColumnFormatter::new
ColumnFormatterNew(columns_per_row) ==
    [columns_per_row |-> columns_per_row, column_padding |-> 2]

\* ColumnFormatter::with_padding
with_padding(self, padding) == [self EXCEPT !.column_padding = padding]

\* the first loop of ColumnFormatter::format: col_widths, indexed from 0
col_widths_of(self, words) ==
    [c \in 0..(self.columns_per_row - 1) |->
        MaxOf({ByteLen(words[i + 1]) :
               i \in {j \in 0..(Len(words) - 1) : j % self.columns_per_row = c}})]

\* the second loop of ColumnFormatter::format, from word i (indexed from 0)
RECURSIVE format_from(_, _, _, _)
format_from(self, words, col_widths, i) ==
    IF i >= Len(words) THEN <<>>
    ELSE LET col_index == i % self.columns_per_row IN
         PadLeft(words[i + 1], col_widths[col_index])
         \o (IF col_index < self.columns_per_row - 1
             THEN Spaces(self.column_padding)
             ELSE <<"\n">>)
         \o format_from(self, words, col_widths, i + 1)

\* ColumnFormatter::format
format(self, input) ==
    LET words == split_whitespace(input) IN
    IF words = <<>> THEN <<>>
    ELSE LET output == format_from(self, words, col_widths_of(self, words), 0) IN
         IF output[Len(output)] # "\n" THEN Append(output, "\n") ELSE output

\* ------------------------------------------------------------ text helpers
\* the order of the characters (ASCII code order, restricted to the model)
CharOrder ==
    <<"\t","\n"," ","#","(",")","+","-",".","0","1","2","3","4","5","6","7","8","9",":">> \o SubSeq(UpperSeq, 1, 26) \o <<"[","]">>
    \o SubSeq(LowerSeq, 1, 26) \o <<"|">> \o <<"E_ACUTE", "e_acute">>

Ord(c) == CHOOSE i \in 1..Len(CharOrder) : CharOrder[i] = c

\* str::cmp(a, b) = Less: lexicographic on the bytes
RECURSIVE StrLess(_, _)
StrLess(a, b) ==
    IF b = <<>> THEN FALSE
    ELSE IF a = <<>> THEN TRUE
    ELSE IF Head(a) = Head(b) THEN StrLess(Tail(a), Tail(b))
    ELSE Ord(Head(a)) < Ord(Head(b))

\* str::starts_with / strip_prefix(..).unwrap() / strip_suffix(..).unwrap()
starts_with(s, p) == Len(s) >= Len(p) /\ SubSeq(s, 1, Len(p)) = p

strip_prefix(s, p) == SubSeq(s, Len(p) + 1, Len(s))

strip_suffix(s, p) == SubSeq(s, 1, Len(s) - Len(p))

\* the concatenation of a sequence of strings
RECURSIVE Concat(_)
Concat(ss) == IF ss = <<>> THEN <<>> ELSE Head(ss) \o Concat(Tail(ss))

\* BufRead::lines: the lines of a text, without their terminators
RECURSIVE Lines(_)
Lines(text) ==
    IF text = <<>> THEN <<>>
    ELSE IF \E i \in 1..Len(text) : text[i] = "\n"
    THEN LET n == CHOOSE i \in 1..Len(text) :
                      text[i] = "\n" /\ \A j \in 1..(i - 1) : text[j] # "\n" IN
         <<SubSeq(text, 1, n - 1)>> \o Lines(SubSeq(text, n + 1, Len(text)))
    ELSE <<text>>

\* writeln!(w, "{}", s)
writeln(s) == s \o <<"\n">>

Digits == <<"0","1","2","3","4","5","6","7","8","9">>

IsDigit(c) == \E d \in 1..Len(Digits) : Digits[d] = c

DigitVal(c) == (CHOOSE d \in 1..Len(Digits) : Digits[d] = c) - 1

RECURSIVE DecVal(_)
DecVal(s) == IF s = <<>> THEN 0 ELSE DecVal(SubSeq(s, 1, Len(s) - 1)) * 10 + DigitVal(s[Len(s)])

\* str::parse::<usize>(): an optional "+", then one or more decimal digits
\* (every key of the model is far below usize::MAX, so PosOverflow is not met)
parse_usize(s) ==
    LET digits == IF s # <<>> /\ Head(s) = "+" /\ Len(s) > 1 THEN Tail(s) ELSE s IN
    IF digits # <<>> /\ \A i \in 1..Len(digits) : IsDigit(digits[i])
    THEN Some(DecVal(digits))
    ELSE None

\* format!("{}", n) for an unsigned integer
RECURSIVE ToDec(_)
ToDec(n) == IF n < 10 THEN <<Digits[n + 1]>> ELSE ToDec(n \div 10) \o <<Digits[(n % 10) + 1]>>

\* ------------------------------------------------------------------- state
VARIABLES
    index,       \* an Index driven alone through add_node
    calls,       \* every raw key handed to add_node's loop, with its posting
    fmt,         \* a ColumnFormatter and the tokens handed to it
    out,         \* what format returned
    dir,         \* the directory as the run found it: path -> text
    fs,          \* the directory now: path -> text
    todo,        \* the entries of read_dir not yet visited
    tags,        \* GLOBAL_TAGS
    dates,       \* GLOBAL_DATES
    pc,          \* where main is
    writer,      \* the bytes buffered in the BufWriter of index.md
    tags_data,   \* main's tags_data
    dates_data,  \* main's dates_data
    created,     \* the paths File::create was called on, in order
    visited,     \* the keys the running loop over get_inputs() has yielded
    added        \* history: every key handed to add_node by the run, in call order

ivars == <<index, calls>>
fvars == <<fmt, out>>
mvars == <<dir, fs, todo, tags, dates, pc, writer, tags_data, dates_data, created, visited, added>>
vars == <<index, calls, fmt, out, dir, fs, todo, tags, dates, pc, writer,
          tags_data, dates_data, created, visited, added>>

\* ------------------------------------------------------ read_first_5_lines
\* the text of a file made of these lines
Text(lines) == Concat([i \in 1..Len(lines) |-> writeln(lines[i])])

\* fs::remove_file
RemoveFile(f, path) == [x \in (DOMAIN f) \ {path} |-> f[x]]

\* File::create followed by the write of the whole text (the page writers are
\* flushed when they go out of scope)
CreateFile(f, path, text) == [x \in (DOMAIN f) \cup {path} |-> IF x = path THEN text ELSE f[x]]

\* a write of data at offset 0 through a descriptor opened before the file
\* was last truncated
WriteAtStart(text, data) ==
    IF Len(data) >= Len(text) THEN data ELSE data \o SubSeq(text, Len(data) + 1, Len(text))

\* line 3 of the header (line_count == 3)
CreatedStep(st, name, line) ==
    IF ~starts_with(line, <<"C","r","e","a","t","e","d",":">>) THEN st
    ELSE LET full_date == split_whitespace(strip_prefix(line, <<"C","r","e","a","t","e","d",":">>)) IN
         IF full_date = <<>> THEN [st EXCEPT !.status = "exit"]
         ELSE IF Len(full_date) < 2 THEN [st EXCEPT !.status = "panic"]
         ELSE [st EXCEPT
                  !.dates = add_node(st.dates, name, st.title, full_date[2],
                                     SubSeq(full_date, 1, 1)),
                  !.added = Append(@, [ix |-> "dates", raw |-> full_date[1],
                                       ref |-> <<name, st.title, full_date[2]>>])]

\* line 4 of the header (line_count == 4)
TagsStep(st, name, line) ==
    IF ~starts_with(line, <<"T","a","g","s",":">>) THEN st
    ELSE LET tagv == split_whitespace(strip_prefix(line, <<"T","a","g","s",":">>)) IN
         IF tagv = <<>> THEN [st EXCEPT !.status = "exit"]
         ELSE [st EXCEPT
                  !.tags = add_node(st.tags, name, st.title, <<>>, tagv),
                  !.added = @ \o [n \in 1..Len(tagv) |->
                                    [ix |-> "tags", raw |-> tagv[n],
                                     ref |-> <<name, st.title, <<>>>>]]]

\* one turn of the loop over reader.lines(), for line number line_count
LineStep(st, path, name, line_count, line) ==
    IF st.status # "ok" THEN st
    ELSE LET s1 == IF line_count = 1 /\ starts_with(line, <<"T","i","t","l","e",":"," ">>)
                   THEN [st EXCEPT !.title = strip_prefix(line, <<"T","i","t","l","e",":"," ">>)]
                   ELSE st
             s2 == IF line_count = 2 /\ starts_with(line, <<"-","-","-">>)
                   THEN [s1 EXCEPT !.fs = RemoveFile(s1.fs, path)]
                   ELSE s1
             s3 == IF line_count = 3 THEN CreatedStep(s2, name, line) ELSE s2
         IN  IF s3.status = "ok" /\ line_count = 4 THEN TagsStep(s3, name, line) ELSE s3

RECURSIVE ReadLoop(_, _, _, _, _)
ReadLoop(st, path, name, lines, line_count) ==
    IF line_count >= Len(lines) \/ line_count >= 5 THEN st
    ELSE ReadLoop(LineStep(st, path, name, line_count, lines[line_count + 1]),
                  path, name, lines, line_count + 1)

\* read_first_5_lines: the file stays readable through its open handle after
\* remove_file; added lists, in call order, the keys handed to add_node
read_first_5_lines(f, tg, dt, path) ==
    LET name == strip_suffix(path, <<".","m","d">>) IN
    ReadLoop([fs |-> f, tags |-> tg, dates |-> dt, title |-> <<>>, status |-> "ok",
              added |-> <<>>],
             path, name, Lines(f[path]), 0)

\* -------------------------------------------------------------------- main
IndexPath == <<"i","n","d","e","x",".","m","d">>

\* format!("{}.md", key)
PagePath(key) == key \o <<".","m","d">>

PageHeader(key) == <<"-","-","-","\n","T","i","t","l","e",":"," ">> \o key \o <<"\n","-","-","-","\n","\n","#","l","i","s","t">>

\* a plausible slip: the comparison of the date page is turned around
LtimeGreater(a, b) == StrLess(b[3], a[3])

\* main, line 250: |a, b| a.2.cmp(&b.2) is Less
LtimeLess(a, b) == StrLess(a[3], b[3])

\* a plausible slip: the tags are sorted by ascending count
CountAsc(a, b) == a[2] < b[2]

\* main, line 221: |a, b| b.1.cmp(&a.1) is Less
CountDesc(a, b) == a[2] > b[2]

\* main, line 262: |a, b| b.0.cmp(&a.0) is Less
ValueDesc(a, b) == a[1] > b[1]

\* the three closures handed to sort_by
CmpLess(cmp, a, b) ==
    CASE cmp = "ltime" -> LtimeLess(a, b)
      [] cmp = "count" -> CountDesc(a, b)
      [] cmp = "value" -> ValueDesc(a, b)

\* slice::sort_by: a stable sort
sort_by(s, cmp) ==
    LET rank(i) == 1 + Cardinality({j \in 1..Len(s) :
                        \/ CmpLess(cmp, s[j], s[i])
                        \/ (~CmpLess(cmp, s[i], s[j]) /\ j < i)}) IN
    [p \in 1..Len(s) |-> s[CHOOSE i \in 1..Len(s) : rank(i) = p]]

\* the lines of a tag page (main, lines 215-219)
TagPage(ix, tag) ==
    LET r == get_files_by_i(ix, tag)
        file_list == IF r.some THEN r.val ELSE <<>> IN
    writeln(PageHeader(tag))
    \o Concat([n \in 1..Len(file_list) |->
          writeln(<<"[","[">> \o file_list[n][1] \o <<"|">> \o file_list[n][2] \o <<"]","]">>)])

\* the lines of a date page (main, lines 247-260)
DatePage(ix, date) ==
    LET file_list == sort_by(get_files_by_i(ix, date).val, "ltime") IN
    writeln(PageHeader(date))
    \o Concat([n \in 1..Len(file_list) |->
          writeln(<<"[","[">> \o file_list[n][1] \o <<"|">> \o file_list[n][3] \o <<"|">>
                  \o file_list[n][2] \o <<"]","]"," ">>)])

\* main, lines 221-227: what is written to the master index for the tags
OutputTags(sorted) ==
    Concat([n \in 1..Len(sorted) |-> sorted[n][1] \o <<"(">> \o ToDec(sorted[n][2]) \o <<")"," ">>])

TagsSection(data) ==
    LET output_tags == OutputTags(sort_by(data, "count")) IN
    writeln(format(with_padding(ColumnFormatterNew(5), 2), output_tags))

\* main, lines 262-268: what is written to the master index for the dates
OutputDates(sorted) ==
    Concat([n \in 1..Len(sorted) |->
       <<"[","[">> \o ToDec(sorted[n][1]) \o <<"]","]","(">> \o ToDec(sorted[n][2]) \o <<")"," ">>])

DatesSection(data) ==
    LET output_dates == OutputDates(sort_by(data, "value")) IN
    writeln(format(ColumnFormatterNew(7), output_dates))

\* ------------------------------------------------------------ the run
MaxDocs == 2

\* the documents a directory may hold: <<name, lines>>
Docs ==
    { <<<<"n">>, <<<<"-","-","-">>, <<"T","i","t","l","e",":"," ","N">>, <<"x">>, <<"C","r","e","a","t","e","d",":"," ","7"," ","0","9">>, <<"T","a","g","s",":"," ","b"," ","F","o">>>>>>,
      <<<<"b">>, <<<<"-","-","-">>, <<"T","i","t","l","e",":"," ","B">>, <<"x">>, <<"C","r","e","a","t","e","d",":"," ","7"," ","0","8">>, <<"T","a","g","s",":"," ","b">>>>>>,
      <<<<"k">>, <<<<"-","-","-">>, <<"T","i","t","l","e",":"," ","N","o","t","e","s"," ","o","n"," ","t","h","e"," ","i","n","d","e","x"," ","p","a","g","e"," ","o","f"," ","K"," ","a","n","d"," ","m","o","r","e">>, <<"x">>,
                <<"C","r","e","a","t","e","d",":"," ","1","0"," ","0","9">>, <<"T","a","g","s",":"," ","f","o"," ","i","n","d","e","x">>>>>>,
      <<<<"n">>, <<<<"-","-","-">>, <<"T","i","t","l","e",":"," ","N">>, <<"x">>, <<"C","r","e","a","t","e","d",":"," ","0","7"," ","0","9">>, <<"T","a","g","s",":"," ","7">>>>>>,
      <<<<"b">>, <<<<"-","-","-">>, <<"T","i","t","l","e",":"," ","B">>, <<"x">>, <<"C","r","e","a","t","e","d",":"," ","7"," ","0","9">>>>>>,
      <<<<"k">>, <<<<"-","-","-">>, <<"T","i","t","l","e",":"," ","K">>, <<"-","-","-">>, <<"C","r","e","a","t","e","d",":"," ","7"," ","0","9">>, <<"T","a","g","s",":"," ","f","o">>>>>>,
      <<<<"f","o">>, <<<<"-","-","-">>, <<"T","i","t","l","e",":"," ","f","o">>, <<"-","-","-">>, <<>>, <<"#","l","i","s","t">>, <<"[","[","n","|","N","]","]">>>>>>,
      <<<<"n">>, <<<<"-","-","-">>, <<"T","i","t","l","e",":"," ","N">>, <<"x">>, <<"C","r","e","a","t","e","d",":"," ","m"," ","1">>, <<"T","a","g","s",":"," ","f","o">>>>>>,
      <<<<"b">>, <<<<"-","-","-">>, <<"T","i","t","l","e",":"," ","B">>, <<"x">>, <<"C","r","e","a","t","e","d",":">>, <<"T","a","g","s",":"," ","b">>>>>>,
      <<<<"k">>, <<<<"-","-","-">>, <<"T","i","t","l","e",":"," ","K">>, <<"x">>, <<"C","r","e","a","t","e","d",":"," ","7">>, <<"T","a","g","s",":"," ","b">>>>>>,
      <<<<"n">>, <<<<"-","-","-">>, <<"T","i","t","l","e",":"," ","N">>, <<"x">>, <<"C","r","e","a","t","e","d",":"," ","7"," ","0","9">>, <<"T","a","g","s",":">>>>>>,
      <<<<"b">>, <<<<"-","-","-">>, <<"T","i","t","l","e",":"," ","B">>, <<"x">>>>>>,
      <<<<"k">>, <<<<"x">>, <<"y">>, <<"z">>, <<"w">>, <<"T","a","g","s",":"," ","B">>>>>> }

\* the directories: at most MaxDocs documents, no two of the same name
Dirs ==
    { [p \in {PagePath(d[1]) : d \in D} |->
          Text((CHOOSE d \in D : PagePath(d[1]) = p)[2])] :
      D \in {E \in SUBSET Docs :
                /\ Cardinality(E) <= MaxDocs
                /\ \A x, y \in E : x[1] = y[1] => x = y} }

IndexIdle == index = IndexNew /\ calls = <<>>
FormatIdle == fmt = None /\ out = None

MainInit ==
    /\ dir \in Dirs
    /\ fs = dir
    /\ todo = DOMAIN dir
    /\ tags = IndexNew
    /\ dates = IndexNew
    /\ pc = "scan"
    /\ writer = <<>>
    /\ tags_data = <<>>
    /\ dates_data = <<>>
    /\ created = <<>>
    /\ visited = {}
    /\ added = <<>>

\* main, lines 179-195: one entry of the directory
ReadFile ==
    \E path \in todo :
        LET st == read_first_5_lines(fs, tags, dates, path) IN
        /\ pc = "scan"
        /\ fs' = st.fs
        /\ tags' = st.tags
        /\ dates' = st.dates
        /\ todo' = todo \ {path}
        /\ pc' = IF st.status = "ok" THEN "scan" ELSE st.status
        /\ added' = added \o st.added
        /\ UNCHANGED <<dir, writer, tags_data, dates_data, created, visited, ivars, fvars>>

\* main, lines 197-202
CreateIndex ==
    /\ pc = "scan"
    /\ todo = {}
    /\ fs' = CreateFile(fs, IndexPath, <<>>)
    /\ created' = Append(created, IndexPath)
    /\ writer' = writeln(<<"-","-","-","\n","T","i","t","l","e",":"," ","i","n","d","e","x","\n","-","-","-","\n","\n","#"," ","T","a","g","s">>)
    /\ pc' = "tags"
    /\ UNCHANGED <<dir, todo, tags, dates, tags_data, dates_data, visited, added, ivars, fvars>>

\* main, lines 208-220: one turn of the loop over the tag keys
RenderTag ==
    \E tag \in get_inputs(tags) \ visited :
        /\ pc = "tags"
        /\ visited' = visited \cup {tag}
        /\ tags_data' = Append(tags_data, <<tag, get_i_count(tags, tag)>>)
        /\ fs' = CreateFile(fs, PagePath(tag), TagPage(tags, tag))
        /\ created' = Append(created, PagePath(tag))
        /\ UNCHANGED <<dir, todo, tags, dates, pc, writer, dates_data, added, ivars, fvars>>

\* main, lines 221-230
FormatTags ==
    /\ pc = "tags"
    /\ visited = get_inputs(tags)
    /\ tags_data' = sort_by(tags_data, "count")
    /\ writer' = writer \o TagsSection(tags_data) \o writeln(<<"#"," ","D","a","t","e","s">>)
    /\ visited' = {}
    /\ pc' = "dates"
    /\ UNCHANGED <<dir, fs, todo, tags, dates, dates_data, created, added, ivars, fvars>>

\* main, lines 236-261: one turn of the loop over the date keys; on a key that
\* does not parse main returns the error and the BufWriter of index.md is
\* flushed as it is dropped
RenderDate ==
    \E date \in get_inputs(dates) \ visited :
        LET r == parse_usize(date) IN
        /\ pc = "dates"
        /\ visited' = visited \cup {date}
        /\ IF r.some
           THEN /\ dates_data' = Append(dates_data, <<r.val, get_i_count(dates, date)>>)
                /\ fs' = CreateFile(fs, PagePath(date), DatePage(dates, date))
                /\ created' = Append(created, PagePath(date))
                /\ UNCHANGED <<pc, writer>>
           ELSE /\ pc' = "failed"
                /\ fs' = [fs EXCEPT ![IndexPath] = WriteAtStart(fs[IndexPath], writer)]
                /\ writer' = <<>>
                /\ UNCHANGED <<dates_data, created>>
        /\ UNCHANGED <<dir, todo, tags, dates, tags_data, added, ivars, fvars>>

\* main, lines 262-272
FinishDates ==
    /\ pc = "dates"
    /\ visited = get_inputs(dates)
    /\ dates_data' = sort_by(dates_data, "value")
    /\ fs' = [fs EXCEPT ![IndexPath] =
                 WriteAtStart(fs[IndexPath], writer \o DatesSection(dates_data))]
    /\ writer' = <<>>
    /\ pc' = "done"
    /\ UNCHANGED <<dir, todo, tags, dates, tags_data, created, visited, added, ivars, fvars>>

Init == MainInit /\ IndexIdle /\ FormatIdle

Next ==
    \/ ReadFile
    \/ CreateIndex
    \/ RenderTag
    \/ FormatTags
    \/ RenderDate
    \/ FinishDates

Spec == Init /\ [][Next]_vars

MainIdle ==
    /\ dir = <<>>
    /\ fs = <<>>
    /\ todo = {}
    /\ tags = IndexNew
    /\ dates = IndexNew
    /\ pc = "off"
    /\ writer = <<>>
    /\ tags_data = <<>>
    /\ dates_data = <<>>
    /\ created = <<>>
    /\ visited = {}
    /\ added = <<>>

\* ------------------------------------------ ColumnFormatter, driven alone
MaxWords == 4
MaxCols == 3
MaxPad == 2

Tokens == { <<"a">>, <<"b","b">>, <<"c","c","c">>, <<"e_acute">> }

FormatInit ==
    /\ fmt \in { Some([self |-> with_padding(ColumnFormatterNew(c), p), words |-> w]) :
                   c \in 1..MaxCols, p \in 0..MaxPad,
                   w \in UNION { [1..n -> Tokens] : n \in 0..MaxWords } }
    /\ out = None

\* the caller joins the tokens as main does, each followed by a space
FormatCall ==
    /\ out = None
    /\ out' = Some(format(fmt.val.self,
                          Concat([n \in 1..Len(fmt.val.words) |-> fmt.val.words[n] \o <<" ">>])))
    /\ UNCHANGED <<fmt, ivars, mvars>>

InitFormat == FormatInit /\ IndexIdle /\ MainIdle

NextFormat == FormatCall

SpecFormat == InitFormat /\ [][NextFormat]_vars

\* ------------------------------------------------- the Index, driven alone

\* raw keys a caller may pass: padded, mixed case, blank, empty
RawKeys ==
    { <<"f","o">>, <<" ","F","o">>, <<"F","O","\t">>, <<"b">>, <<" ","\t">>, <<>> }

\* keys that are looked up; <<"z">> is never added
ProbeKeys == RawKeys \cup { <<"z">>, <<"f","O"," ">> }

IdxFiles == { <<"n","1">>, <<"n","2">> }
IdxTitles == { <<"T">> }
IdxExtras == { <<"0","9">> }

InputVecs == UNION { [1..n -> RawKeys] : n \in 0..MaxInput }

IndexInit ==
    /\ index = IndexNew
    /\ calls = <<>>

\* one call of add_node; calls remembers every raw key handed to the loop
AddNodeCall ==
    \E f \in IdxFiles, t \in IdxTitles, e \in IdxExtras, input \in InputVecs :
        /\ Len(calls) + Len(input) <= MaxAdds
        /\ index' = add_node(index, f, t, e, input)
        /\ calls' = calls \o [n \in 1..Len(input) |-> [raw |-> input[n], ref |-> <<f, t, e>>]]
        /\ UNCHANGED <<fvars, mvars>>

InitIndex == IndexInit /\ FormatIdle /\ MainIdle

NextIndex == AddNodeCall

SpecIndex == InitIndex /\ [][NextIndex]_vars

\* the number of recorded adds whose raw key normalizes to k
RECURSIVE AddsOf(_, _)
AddsOf(cs, k) ==
    IF cs = <<>> THEN 0
    ELSE (IF normalize(Head(cs).raw) = k THEN 1 ELSE 0) + AddsOf(Tail(cs), k)

\* C1: after any sequence of add_node calls the key set and the postings map
\* hold the same keys, every posting list is non-empty, and get_files_by_i(r)
\* is None exactly when the normalized r is not in get_inputs().
C1_KeysAndPostingsInSync ==
    /\ get_inputs(index) = DOMAIN index.map
    /\ \A k \in DOMAIN index.map : Len(index.map[k]) > 0
    /\ \A r \in ProbeKeys :
          /\ get_files_by_i(index, r).some <=> normalize(r) \in get_inputs(index)
          /\ get_files_by_i(index, r).some => get_files_by_i(index, r).val # <<>>

C1_Witness ==
    /\ Cardinality(get_inputs(index)) = 2
    /\ \E n \in 1..Len(calls) : normalize(calls[n].raw) = <<>>
    /\ ~get_files_by_i(index, <<"z">>).some
    /\ get_files_by_i(index, <<"f","O"," ">>).some

\* C2: get_i_count(r) is the number of earlier adds whose raw key normalizes
\* to the same non-empty string as r (no deduplication, no cap), it is 0 when
\* r normalizes to the empty string, and a call whose raw keys all normalize
\* to the empty string changes neither the key set nor any posting list.
C2_CountMatches ==
    \A r \in ProbeKeys :
        get_i_count(index, r) =
            IF normalize(r) = <<>> THEN 0 ELSE AddsOf(calls, normalize(r))

C2_EmptyAddNoOp ==
    (/\ Len(calls') > Len(calls)
     /\ \A n \in (Len(calls) + 1)..Len(calls') : normalize(calls'[n].raw) = <<>>)
    => index' = index

C2_CountOfAdds == [](C2_CountMatches) /\ [][C2_EmptyAddNoOp]_vars

C2_Witness ==
    /\ get_i_count(index, <<" ","F","o">>) = 2
    /\ Len(calls) = 3
    /\ calls[1].ref = calls[2].ref
    /\ calls[1].raw # calls[2].raw
    /\ normalize(calls[3].raw) = <<>>


\* ------------------------------------------------- properties of the run
\* the document ids that have a posting in ix
DocIds(ix) == UNION { {ix.map[k][n][1] : n \in 1..Len(ix.map[k])} : k \in DOMAIN ix.map }

\* a document the header reader rejects: fewer than 5 lines, or a third line
\* that starts with "---" (the pattern on which the file is deleted)
Rejected(text) ==
    LET ls == Lines(text) IN
    Len(ls) < 5 \/ (Len(ls) >= 3 /\ starts_with(ls[3], <<"-","-","-">>))

\* C3: a rejected document contributes nothing to either index: no posting of
\* the tag index or of the date index names a document that has fewer than 5
\* lines or whose third line starts with "---".
C3_RejectedContributesNothing ==
    \A id \in DocIds(tags) \cup DocIds(dates) : ~Rejected(dir[PagePath(id)])

\* C4: when a date key does not parse as a non-negative integer the run
\* aborts with no master index file and no key page created or written.
C4_AbortBeforeAnyOutput ==
    pc = "failed" =>
        /\ created = <<>>
        /\ \A p \in DOMAIN fs : p \in DOMAIN dir /\ fs[p] = dir[p]

\* the tokens of the lines ls[a..b]
LineTokens(ls, a, b) == Concat([n \in 1..(b - a + 1) |-> split_whitespace(ls[a + n - 1])])

\* the position of the first line equal to l, 0 when there is none
LinePos(ls, l) ==
    IF \E n \in 1..Len(ls) : ls[n] = l
    THEN CHOOSE n \in 1..Len(ls) : ls[n] = l /\ \A m \in 1..(n - 1) : ls[m] # l
    ELSE 0

\* the tokens of the Tags section and of the Dates section of a master index
TagsTokens(text) ==
    LET ls == Lines(text) IN
    LineTokens(ls, LinePos(ls, <<"#"," ","T","a","g","s">>) + 1, LinePos(ls, <<"#"," ","D","a","t","e","s">>) - 1)

DatesTokens(text) ==
    LET ls == Lines(text) IN
    LineTokens(ls, LinePos(ls, <<"#"," ","D","a","t","e","s">>) + 1, Len(ls))

\* C5: for populated indexes the written master index is exactly the lines
\* "---", "Title: index", "---", "", "# Tags", the rows of the formatted tag
\* tokens, "# Dates", the rows of the formatted date tokens, and no other line.
C5_MasterIndexShape ==
    (pc = "done" /\ get_inputs(tags) # {} /\ get_inputs(dates) # {}) =>
        Lines(fs[IndexPath]) =
            << <<"-","-","-">>, <<"T","i","t","l","e",":"," ","i","n","d","e","x">>, <<"-","-","-">>, <<>>, <<"#"," ","T","a","g","s">> >>
            \o Lines(format(with_padding(ColumnFormatterNew(5), 2), OutputTags(tags_data)))
            \o << <<"#"," ","D","a","t","e","s">> >>
            \o Lines(format(ColumnFormatterNew(7), OutputDates(dates_data)))

\* the token the claims expect for a date key and for a tag key
DateToken(d) == <<"[","[">> \o d \o <<"]","]","(">> \o ToDec(get_i_count(dates, d)) \o <<")">>

TagToken(k) == k \o <<"(">> \o ToDec(get_i_count(tags, k)) \o <<")">>

\* C6: in the Dates section of the master index every date key d appears as
\* exactly one token [[d]](n), d the key as stored and n its count, and the
\* tokens are ordered by the integer value of the key, descending.
C6_DatesSection ==
    pc = "done" =>
        LET toks == DatesTokens(fs[IndexPath])
            keys == get_inputs(dates)
            pos(d) == CHOOSE i \in 1..Len(toks) : toks[i] = DateToken(d) IN
        /\ Len(toks) = Cardinality(keys)
        /\ \A d \in keys : Cardinality({i \in 1..Len(toks) : toks[i] = DateToken(d)}) = 1
        /\ \A d, e \in keys :
              parse_usize(d).val > parse_usize(e).val => pos(d) < pos(e)

\* C7: in the Tags section of the master index every tag key k appears as
\* exactly one token k(n), n its count, and of two tokens the one with the
\* strictly larger count comes first.
C7_TagsSection ==
    pc \in {"done", "failed"} =>
        LET toks == TagsTokens(fs[IndexPath])
            keys == get_inputs(tags)
            pos(k) == CHOOSE i \in 1..Len(toks) : toks[i] = TagToken(k) IN
        /\ Len(toks) = Cardinality(keys)
        /\ \A k \in keys : Cardinality({i \in 1..Len(toks) : toks[i] = TagToken(k)}) = 1
        /\ \A k, l \in keys :
              get_i_count(tags, k) > get_i_count(tags, l) => pos(k) < pos(l)

C7_Witness ==
    /\ pc = "done"
    /\ \E k, l, m \in get_inputs(tags) :
          /\ get_i_count(tags, k) > get_i_count(tags, l)
          /\ l # m /\ get_i_count(tags, l) = get_i_count(tags, m)
    /\ \E n \in 1..Len(added) : added[n].ix = "tags" /\ added[n].raw # normalize(added[n].raw)

\* the postings handed to add_node for key k of index ixname, in call order
PostingsOf(ixname, k) ==
    LET mine == SelectSeq(added, LAMBDA a : a.ix = ixname /\ normalize(a.raw) = k) IN
    [n \in 1..Len(mine) |-> mine[n].ref]

TagLine(ref) == <<"[","[">> \o ref[1] \o <<"|">> \o ref[2] \o <<"]","]">>

DateLine(ref) == <<"[","[">> \o ref[1] \o <<"|">> \o ref[3] \o <<"|">> \o ref[2] \o <<"]","]"," ">>

PageHeaderLines(key) == << <<"-","-","-">>, <<"T","i","t","l","e",":"," ">> \o key, <<"-","-","-">>, <<>>, <<"#","l","i","s","t">> >>

\* the tag page just written lists the postings of its key in call order
TagPageAsClaimed(text, tag) ==
    LET P == PostingsOf("tags", tag) IN
    Lines(text) = PageHeaderLines(tag) \o [n \in 1..Len(P) |-> TagLine(P[n])]

\* the date page just written lists the postings of its key, one line each,
\* ascending by sortField, postings of equal sortField in call order
DatePageAsClaimed(text, date) ==
    LET P == PostingsOf("dates", date)
        n == Len(P)
        ls == Lines(text) IN
    /\ Len(ls) = 5 + n
    /\ SubSeq(ls, 1, 5) = PageHeaderLines(date)
    /\ \E f \in {g \in [1..n -> 1..n] : \A i, j \in 1..n : g[i] = g[j] => i = j} :
          /\ \A i \in 1..n : ls[5 + i] = DateLine(P[f[i]])
          /\ \A i, j \in 1..n : i < j =>
                /\ ~StrLess(P[f[j]][3], P[f[i]][3])
                /\ P[f[i]][3] = P[f[j]][3] => f[i] < f[j]

\* C9: each date page lists exactly the postings of its date key, one line per
\* posting, ascending by sortField (equal sortFields keep insertion order);
\* each tag page lists the postings of its tag key in insertion order.
C9_PageStep ==
    /\ (pc = "tags" /\ visited' # visited) =>
          \A tag \in visited' \ visited : TagPageAsClaimed(fs'[PagePath(tag)], tag)
    /\ (pc = "dates" /\ pc' = "dates" /\ visited' # visited) =>
          \A date \in visited' \ visited : DatePageAsClaimed(fs'[PagePath(date)], date)

C9_PagesListPostings == [][C9_PageStep]_vars

C9_Witness ==
    /\ pc = "done"
    /\ \E d \in get_inputs(dates) :
          /\ Len(dates.map[d]) >= 2
          /\ StrLess(dates.map[d][2][3], dates.map[d][1][3])
          /\ PagePath(d) \in DOMAIN fs
    /\ \E k \in get_inputs(tags) : Len(tags.map[k]) >= 2

\* C10: the paths handed to File::create are pairwise distinct (the master
\* index and every key page) and none is the path of an indexed document.
C10_NoFileReplaced ==
    \A i \in 1..Len(created) :
        /\ \A j \in 1..(i - 1) : created[j] # created[i]
        /\ created[i] \notin {PagePath(id) : id \in DocIds(tags) \cup DocIds(dates)}

\* ------------------------------------------ properties of ColumnFormatter
\* the width of column c of the claim: the widest token placed in it
ClaimWidth(words, cpr, c) ==
    MaxOf({CharCount(words[i + 1]) : i \in {j \in 0..(Len(words) - 1) : j % cpr = c}})

\* token i (from 0), left-justified and padded to the width of its column
ClaimCell(words, cpr, i) ==
    words[i + 1] \o Spaces(ClaimWidth(words, cpr, i % cpr) - CharCount(words[i + 1]))

\* row r (from 1): its cells with exactly pad spaces between adjacent columns
RECURSIVE ClaimRowFrom(_, _, _, _, _)
ClaimRowFrom(words, cpr, pad, i, last) ==
    IF i = last THEN ClaimCell(words, cpr, i)
    ELSE ClaimCell(words, cpr, i) \o Spaces(pad) \o ClaimRowFrom(words, cpr, pad, i + 1, last)

ClaimRow(words, cpr, pad, r) ==
    LET first == (r - 1) * cpr
        last == IF r * cpr <= Len(words) THEN r * cpr - 1 ELSE Len(words) - 1 IN
    ClaimRowFrom(words, cpr, pad, first, last)

\* C8: format places token i in column i mod columnsPerRow, left-justified and
\* padded to the widest token of that column, with exactly padding spaces
\* between adjacent columns and a line break after each row; the output ends
\* with exactly one line break, and is empty when there is no token. (The
\* padding that follows the last token of a short final row is allowed here.)
C8_FormatLayout ==
    out.some =>
        LET words == fmt.val.words
            cpr == fmt.val.self.columns_per_row
            pad == fmt.val.self.column_padding
            o == out.val
            rows == Lines(o) IN
        IF words = <<>> THEN o = <<>>
        ELSE /\ o[Len(o)] = "\n"
             /\ Len(o) >= 2 => o[Len(o) - 1] # "\n"
             /\ Len(rows) = (Len(words) + cpr - 1) \div cpr
             /\ \A r \in 1..Len(rows) :
                   \/ rows[r] = ClaimRow(words, cpr, pad, r)
                   \/ /\ r * cpr > Len(words)
                      /\ rows[r] = ClaimRow(words, cpr, pad, r) \o Spaces(pad)

====
